---- MODULE Spec2Model ----
(***************************************************************************)
(* Model of the fp16-in / f32-accumulate / fp16-out GEMM kernel            *)
(* gemm_fp16_acc32 of src/native/cerebros_numerics/src/lib.rs.             *)
(*                                                                         *)
(* One call is a state machine over the statements of the function; the    *)
(* rayon fan-out of lines 74-100 is a set of units of work, one per row    *)
(* chunk, run step by step by the threads of the pool.                     *)
(*                                                                         *)
(* Numbers.  usize is UsizeBits wide.  Floating-point values are modelled  *)
(* on the integer-valued finite part of the formats: an f32 is the integer *)
(* it denotes (every integer of magnitude < 2^24 is an f32, larger ones    *)
(* round to 24 significant bits), an f16 is its 16-bit pattern.  The       *)
(* inputs are drawn from encodings of integers, so no fraction, infinity   *)
(* or NaN is ever decoded.                                                 *)
(***************************************************************************)
EXTENDS Integers, Sequences, FiniteSets

VARIABLES
    a, b, m, n, k,      \* the arguments of the call (a, b: byte sequences)
    pc,                 \* position of the calling thread in the function
    outcome,            \* how the call ended: "none" while it runs
    out,                \* the bytes of the returned binary
    allocated,          \* the locals that hold a heap allocation
    a_half, b_half,     \* Vec<f16>, as bit patterns
    a_f32, b_f32,       \* Vec<f32>
    mn,                 \* m * n once computed
    c_f32,              \* the accumulator
    c_half,             \* the narrowed result
    rows,               \* per row chunk (unit of work): its status and loop state
    wlog,               \* history: <<i, x>> when the unit of row i wrote c_f32[x]
    swapped,            \* history: the arguments are the transposed pair
    seen                \* history: result of the first call with the original arguments

vars == <<a, b, m, n, k, pc, outcome, out, allocated, a_half, b_half, a_f32,
          b_f32, mn, c_f32, c_half, rows, wlog, swapped, seen>>

-----------------------------------------------------------------------------
(* Bounds of the model *)

UsizeBits == 12      \* width of usize
MaxDim == 2          \* small dimensions 0..MaxDim in the shape inputs
MaxBufLen == 8       \* byte lengths 0..MaxBufLen in the shape inputs
MaxM == 2            \* rows of A in the value inputs
MaxN == 2            \* columns of B in the value inputs
MaxK == 2            \* contraction lengths 1..MaxK (and 8, 9, 16) in the value inputs
NumWorkers == 2      \* threads of the rayon pool: units of work running at once

RECURSIVE Pow2(_)
Pow2(e) == IF e = 0 THEN 1 ELSE 2 * Pow2(e - 1)

USIZE_MAX == Pow2(UsizeBits) - 1
ISIZE_MAX == Pow2(UsizeBits - 1) - 1

-----------------------------------------------------------------------------
(* usize arithmetic *)

None == -1

\* usize::checked_mul: None on overflow
checked_mul(x, y) == IF x * y > USIZE_MAX THEN None ELSE x * y

\* Option::and_then(|x| x.checked_mul(y))
and_then_mul(o, y) == IF o = None THEN None ELSE checked_mul(o, y)

\* Option::unwrap_or
unwrap_or(o, d) == IF o = None THEN d ELSE o

\* lines 54-55 with wrapping multiplication
ExpectedLenWrapping(x, y) == (x * y * 2) % (USIZE_MAX + 1)

\* lines 54-55: x.checked_mul(y).and_then(|v| v.checked_mul(2)).unwrap_or(usize::MAX)
ExpectedLen(x, y) == unwrap_or(and_then_mul(checked_mul(x, y), 2), USIZE_MAX)

-----------------------------------------------------------------------------
(* Floating point on integer values *)

Abs(x) == IF x < 0 THEN -x ELSE x

RECURSIVE Log2(_)
Log2(x) == IF x < 2 THEN 0 ELSE 1 + Log2(x \div 2)

\* Round the integer x to sig significant bits, ties to even.
RoundSig(x, sig) ==
    LET ax == Abs(x)
        e  == Log2(ax)
    IN  IF e < sig THEN x
        ELSE LET unit == Pow2(e - sig + 1)
                 q    == ax \div unit
                 r    == ax % unit
                 up   == (2 * r > unit) \/ (2 * r = unit /\ q % 2 = 1)
                 v    == (IF up THEN q + 1 ELSE q) * unit
             IN  IF x < 0 THEN -v ELSE v

F32Sig == 24
F16Sig == 11
F16Inf == 31744      \* 0x7C00
F16Bias == 15
F16SignBit == 32768

F32(x) == RoundSig(x, F32Sig)
F32Mul(x, y) == F32(x * y)
F32Add(x, y) == F32(x + y)

\* f16::from_bits followed by f32::from, on the bit patterns of integers
F16ToF32(u) ==
    LET s == u \div F16SignBit
        e == (u \div 1024) % 32
        f == u % 1024
        mag == IF e = 0 THEN 0
               ELSE IF e >= F16Bias + 10 THEN (1024 + f) * Pow2(e - F16Bias - 10)
               ELSE (1024 + f) \div Pow2(F16Bias + 10 - e)
    IN  IF s = 1 THEN -mag ELSE mag

\* f16::from_f32 on an integer value: round to nearest even, overflow to infinity
F16FromF32(x) ==
    LET r  == RoundSig(x, F16Sig)
        ar == Abs(r)
        e  == Log2(ar)
        s  == IF x < 0 THEN F16SignBit ELSE 0
    IN  IF ar = 0 THEN 0
        ELSE IF e > 15 THEN s + F16Inf
        ELSE IF e >= 10 THEN s + (e + F16Bias) * 1024 + (ar \div Pow2(e - 10)) - 1024
        ELSE s + (e + F16Bias) * 1024 + ar * Pow2(10 - e) - 1024

\* u16::from_le_bytes and u16::to_le_bytes
from_le_bytes(b0, b1) == b0 + 256 * b1
to_le_bytes(u) == <<u % 256, u \div 256>>

\* lines 27-36: chunks_exact(2) drops a trailing odd byte
read_fp16_le_slice(bytes) ==
    [t \in 1..(Len(bytes) \div 2) |-> from_le_bytes(bytes[2 * t - 1], bytes[2 * t])]

\* lines 39-47: the buffer after the loop; buf[o] with o beyond the buffer panics
write_fp16_le_slice(buf, data) ==
    [x \in 1..Len(buf) |->
        IF (x + 1) \div 2 <= Len(data)
        THEN to_le_bytes(data[(x + 1) \div 2])[2 - (x % 2)]
        ELSE buf[x]]

-----------------------------------------------------------------------------
(* The arguments the calls are made with *)

\* the contents of A and of B
FillPairs ==
    { <<"zeros", "zeros">>, <<"zeros", "ramp">>, <<"ones", "ones">>,
      <<"ident", "ramp">>, <<"ramp", "ident">>, <<"ramp", "neg">>, <<"neg", "ramp">> }

\* element t (row-major, from 0) of a matrix with cols columns
FillValue(f, t, cols) ==
    CASE f = "zeros" -> 0
      [] f = "ones"  -> 1
      [] f = "ident" -> IF t % (cols + 1) = 0 THEN 1 ELSE 0
      [] f = "ramp"  -> t + 2
      [] f = "neg"   -> (t % 3) - 1

\* count packed little-endian halfs
FillBytes(f, count, cols) ==
    [x \in 1..(2 * count) |->
        to_le_bytes(F16FromF32(FillValue(f, (x - 1) \div 2, cols)))[2 - (x % 2)]]

Dims == (0..MaxDim) \cup {Pow2(UsizeBits - 1), USIZE_MAX}
KVals == (1..MaxK) \cup {8, 9, 16}

\* a unit of work before it runs; j, p, acc are the locals of lines 79-82,
\* steps and reads the history of the loop iterations of the current element
Unstarted ==
    [st |-> "unstarted", j |-> 0, p |-> 0, acc |-> 0, steps |-> <<>>, reads |-> <<>>]
NoResult == [outcome |-> "none", out |-> <<>>]
Uninit == -1

\* the locals of a call that has just been entered
Entered ==
    /\ pc = "validate"
    /\ outcome = "none"
    /\ out = <<>>
    /\ allocated = {}
    /\ a_half = <<>> /\ b_half = <<>>
    /\ a_f32 = <<>> /\ b_f32 = <<>>
    /\ mn = 0
    /\ c_f32 = <<>>
    /\ c_half = <<>>
    /\ rows = <<>>
    /\ wlog = {}

\* any shape, large dimensions included, with zero-filled buffers of any length
InitShapes ==
    /\ m \in Dims /\ n \in Dims /\ k \in Dims
    /\ \E la \in 0..MaxBufLen : a = [x \in 1..la |-> 0]
    /\ \E lb \in 0..MaxBufLen : b = [x \in 1..lb |-> 0]

\* well-formed small shapes with varied contents
InitValues ==
    /\ m \in 1..MaxM /\ n \in 1..MaxN /\ k \in KVals
    /\ \E f \in FillPairs :
        /\ a = FillBytes(f[1], m * k, k)
        /\ b = FillBytes(f[2], k * n, n)

\* a shape whose m*n overflows although A and B are of moderate size
InitLarge ==
    /\ m = Pow2(UsizeBits \div 2 + 1) /\ n = m /\ k = 1
    /\ a = [x \in 1..(2 * m) |-> 0]
    /\ b = a

Init ==
    /\ InitShapes \/ InitValues \/ InitLarge
    /\ Entered
    /\ swapped = FALSE
    /\ seen = NoResult

-----------------------------------------------------------------------------
(* The calling thread, lines 52-71 *)

expected_a == ExpectedLen(m, k)
expected_b == ExpectedLen(k, n)

\* line 56 with && for ||
ShapeMismatchBoth == Len(a) # expected_a /\ Len(b) # expected_b

\* line 56
ShapeMismatch == Len(a) # expected_a \/ Len(b) # expected_b

Return(o) ==
    /\ pc' = "done"
    /\ outcome' = o

SizeOfF32 == 4

\* a Vec of no elements holds no allocation
Heap(names, len) == IF len = 0 THEN {} ELSE names

\* lines 54-58
Validate ==
    /\ pc = "validate"
    /\ IF ShapeMismatch
       THEN Return("badarg")
       ELSE pc' = "decode" /\ UNCHANGED outcome
    /\ UNCHANGED <<a, b, m, n, k, out, allocated, a_half, b_half, a_f32, b_f32,
                   mn, c_f32, c_half, rows, wlog, swapped, seen>>

\* lines 61-64; collect() panics with "capacity overflow" when the f32 vector
\* would exceed isize::MAX bytes
Decode ==
    /\ pc = "decode"
    /\ IF (Len(a) \div 2) * SizeOfF32 > ISIZE_MAX \/ (Len(b) \div 2) * SizeOfF32 > ISIZE_MAX
       THEN Return("panic") /\ UNCHANGED <<a_half, b_half, a_f32, b_f32, allocated>>
       ELSE /\ a_half' = read_fp16_le_slice(a)
            /\ b_half' = read_fp16_le_slice(b)
            /\ a_f32' = [t \in 1..Len(a_half') |-> F16ToF32(a_half'[t])]
            /\ b_f32' = [t \in 1..Len(b_half') |-> F16ToF32(b_half'[t])]
            /\ allocated' = allocated \cup Heap({"a_half", "a_f32"}, Len(a_half'))
                                      \cup Heap({"b_half", "b_f32"}, Len(b_half'))
            /\ pc' = "mul"
            /\ UNCHANGED outcome
    /\ UNCHANGED <<a, b, m, n, k, out, mn, c_f32, c_half, rows, wlog, swapped, seen>>

\* lines 67-70
CheckMn ==
    /\ pc = "mul"
    /\ IF checked_mul(m, n) = None
       THEN Return("overflow") /\ UNCHANGED mn
       ELSE mn' = checked_mul(m, n) /\ pc' = "alloc_acc" /\ UNCHANGED outcome
    /\ UNCHANGED <<a, b, m, n, k, out, allocated, a_half, b_half, a_f32, b_f32,
                   c_f32, c_half, rows, wlog, swapped, seen>>

\* line 71: vec![0f32; mn] panics with "capacity overflow" when the byte size
\* exceeds isize::MAX
AllocAcc ==
    /\ pc = "alloc_acc"
    /\ IF mn * SizeOfF32 > ISIZE_MAX
       THEN Return("panic") /\ UNCHANGED <<c_f32, allocated>>
       ELSE /\ c_f32' = [t \in 1..mn |-> 0]
            /\ allocated' = allocated \cup Heap({"c_f32"}, mn)
            /\ pc' = "chunks"
            /\ UNCHANGED outcome
    /\ UNCHANGED <<a, b, m, n, k, out, a_half, b_half, a_f32, b_f32, mn, c_half,
                   rows, wlog, swapped, seen>>

-----------------------------------------------------------------------------
(* The parallel multiply, lines 74-100 *)

\* par_chunks_mut(n): the number of chunks of c_f32
NumChunks == (Len(c_f32) + n - 1) \div n

\* every chunk starts at the front of the accumulator
ChunkStartZero(i) == 0

\* chunks that overlap: chunk i starts one element early
ChunkStartOverlapping(i) == IF i = 0 THEN 0 ELSE i * n - 1

\* par_chunks_mut(n): chunk i is c_f32[i*n .. min((i+1)*n, len)]
ChunkStart(i) == i * n

ChunkLen(i) ==
    IF ChunkStart(i) + n <= Len(c_f32) THEN n ELSE Len(c_f32) - ChunkStart(i)

\* lines 74-76: rayon's par_chunks_mut asserts chunk_size != 0
ParChunks ==
    /\ pc = "chunks"
    /\ IF n = 0
       THEN Return("panic") /\ UNCHANGED rows
       ELSE /\ rows' = [i \in 1..NumChunks |-> Unstarted]
            /\ pc' = "par"
            /\ UNCHANGED outcome
    /\ UNCHANGED <<a, b, m, n, k, out, allocated, a_half, b_half, a_f32, b_f32,
                   mn, c_f32, c_half, wlog, swapped, seen>>

\* a panic in a unit of work is propagated to the caller of for_each
WorkerPanic ==
    /\ Return("panic")
    /\ UNCHANGED <<rows, c_f32, wlog>>

\* the unit of work of row i (rows is indexed from 1)
Unit(i) == rows[i + 1]

Running == {i \in 0..(Len(rows) - 1) : Unit(i).st = "running"}

\* lines 77-82: a free pool thread takes the unit of work of row i; the threads
\* are interchangeable, so the state records only which units are running
Take(i) ==
    /\ pc = "par"
    /\ Cardinality(Running) < NumWorkers
    /\ Unit(i).st = "unstarted"
    /\ IF (i + 1) * k > Len(a_f32)
       THEN WorkerPanic
       ELSE /\ rows' = [rows EXCEPT ![i + 1].st = "running"]
            /\ UNCHANGED <<pc, outcome, c_f32, wlog>>
    /\ UNCHANGED <<a, b, m, n, k, out, allocated, a_half, b_half, a_f32, b_f32,
                   mn, c_half, swapped, seen>>

\* the indices of a_row[p] and b_f32[p * n + j] are within the slices
InRange(i, p) ==
    /\ p < k
    /\ p * n + Unit(i).j < Len(b_f32)

\* a_row[p] read from row 0 of A for every i
ProductRowZero(i, p) ==
    F32Mul(a_f32[p + 1], b_f32[p * n + Unit(i).j + 1])

\* a_row[p] * b_f32[p * n + j] with a_row = a_f32[i*k .. (i+1)*k]
Product(i, p) ==
    F32Mul(a_f32[i * k + p + 1], b_f32[p * n + Unit(i).j + 1])

RECURSIVE Accumulate(_, _, _, _)
\* acc after acc += product, for p, p+1, .., p+count-1 in this order
Accumulate(i, acc, p, count) ==
    IF count = 0 THEN acc
    ELSE Accumulate(i, F32Add(acc, Product(i, p)), p + 1, count - 1)

\* count products added to acc, p advanced by count
Advance(i, kind, count) ==
    LET s == Unit(i) IN
    IF \E q \in s.p..(s.p + count - 1) : ~InRange(i, q)
    THEN WorkerPanic
    ELSE /\ rows' = [rows EXCEPT ![i + 1] =
                [s EXCEPT !.acc = Accumulate(i, s.acc, s.p, count),
                          !.p = s.p + count,
                          !.steps = Append(s.steps, kind),
                          !.reads = s.reads \o [q \in 1..count |-> s.p + q - 1]]]
         /\ UNCHANGED <<pc, outcome, c_f32, wlog>>

Unroll == 8

\* line 83 with the bound off by one
InGroupLoopStrict(i) == Unit(i).p + Unroll < k

\* line 83: while p + 7 < k
InGroupLoop(i) == Unit(i).p + Unroll - 1 < k

\* lines 83-93: one iteration of the unrolled loop
Group8(i) ==
    /\ pc = "par"
    /\ Unit(i).st = "running"
    /\ InGroupLoop(i)
    /\ Advance(i, "group", Unroll)
    /\ UNCHANGED <<a, b, m, n, k, out, allocated, a_half, b_half, a_f32, b_f32,
                   mn, c_half, swapped, seen>>

\* lines 94-97: one iteration of the remainder loop
Single(i) ==
    /\ pc = "par"
    /\ Unit(i).st = "running"
    /\ ~InGroupLoop(i)
    /\ Unit(i).p < k
    /\ Advance(i, "single", 1)
    /\ UNCHANGED <<a, b, m, n, k, out, allocated, a_half, b_half, a_f32, b_f32,
                   mn, c_half, swapped, seen>>

\* line 98 and the step of the loop of line 79: row[j] = acc, then the next j
StoreElem(i) ==
    LET s == Unit(i)
        x == ChunkStart(i) + s.j
    IN
    /\ pc = "par"
    /\ s.st = "running"
    /\ ~InGroupLoop(i)
    /\ ~(s.p < k)
    /\ IF ~(s.j < ChunkLen(i))
       THEN WorkerPanic
       ELSE /\ c_f32' = [c_f32 EXCEPT ![x + 1] = s.acc]
            /\ wlog' = wlog \cup {<<i, x>>}
            /\ rows' = [rows EXCEPT ![i + 1] =
                    IF s.j + 1 < n
                    THEN [Unstarted EXCEPT !.st = "running", !.j = s.j + 1]
                    ELSE [Unstarted EXCEPT !.st = "done", !.j = s.j + 1]]
            /\ UNCHANGED <<pc, outcome>>
    /\ UNCHANGED <<a, b, m, n, k, out, allocated, a_half, b_half, a_f32, b_f32,
                   mn, c_half, swapped, seen>>

\* for_each returning as soon as every unit has been taken
AllTaken == \A i \in 1..Len(rows) : rows[i].st # "unstarted"

\* line 100: for_each returns when every unit of work has finished
AllDone == \A i \in 1..Len(rows) : rows[i].st = "done"

Join ==
    /\ pc = "par"
    /\ AllDone
    /\ pc' = "cast"
    /\ UNCHANGED <<a, b, m, n, k, outcome, out, allocated, a_half, b_half, a_f32,
                   b_f32, mn, c_f32, c_half, rows, wlog, swapped, seen>>

-----------------------------------------------------------------------------
(* Encoding, lines 102-112 *)

\* line 103: c_f32 is consumed
Cast ==
    /\ pc = "cast"
    /\ c_half' = [t \in 1..Len(c_f32) |-> F16FromF32(c_f32[t])]
    /\ allocated' = (allocated \ {"c_f32"}) \cup Heap({"c_half"}, Len(c_f32))
    /\ pc' = "alloc_out"
    /\ UNCHANGED <<a, b, m, n, k, outcome, out, a_half, b_half, a_f32, b_f32, mn,
                   c_f32, rows, wlog, swapped, seen>>

\* line 105
out_len == unwrap_or(checked_mul(mn, 2), USIZE_MAX)

\* what OwnedBinary::new(size) may answer: no object is larger than isize::MAX,
\* and any request may be refused by the allocator
AllocAnswers(size) == IF size > ISIZE_MAX THEN {FALSE} ELSE BOOLEAN

\* lines 106-109: the new binary is not initialised
AllocOut ==
    /\ pc = "alloc_out"
    /\ \E ok \in AllocAnswers(out_len) :
        IF ok
        THEN /\ out' = [x \in 1..out_len |-> Uninit]
             /\ allocated' = allocated \cup {"out"}
             /\ pc' = "write"
             /\ UNCHANGED outcome
        ELSE /\ Return("alloc_failed")
             /\ UNCHANGED <<out, allocated>>
    /\ UNCHANGED <<a, b, m, n, k, a_half, b_half, a_f32, b_f32, mn, c_f32, c_half,
                   rows, wlog, swapped, seen>>

\* lines 111-112
WriteOut ==
    /\ pc = "write"
    /\ IF 2 * Len(c_half) > Len(out)
       THEN Return("panic") /\ UNCHANGED out
       ELSE out' = write_fp16_le_slice(out, c_half) /\ Return("ok")
    /\ UNCHANGED <<a, b, m, n, k, allocated, a_half, b_half, a_f32, b_f32, mn,
                   c_f32, c_half, rows, wlog, swapped, seen>>

-----------------------------------------------------------------------------
(* The host makes further calls: nothing of a call outlives it *)

\* what the caller receives
Result == [outcome |-> outcome, out |-> IF outcome = "ok" THEN out ELSE <<>>]

\* every local is dropped on return and created afresh by the next call
Reenter ==
    /\ pc' = "validate"
    /\ outcome' = "none"
    /\ out' = <<>>
    /\ allocated' = {}
    /\ a_half' = <<>> /\ b_half' = <<>>
    /\ a_f32' = <<>> /\ b_f32' = <<>>
    /\ mn' = 0
    /\ c_f32' = <<>>
    /\ c_half' = <<>>
    /\ rows' = <<>>
    /\ wlog' = {}
    /\ seen' = IF seen = NoResult /\ ~swapped THEN Result ELSE seen

\* the same call again
Recall ==
    /\ pc = "done"
    /\ Reenter
    /\ UNCHANGED <<a, b, m, n, k, swapped>>

\* a call with the operands exchanged: B (as n x k) times A (as k x m)
SwapCall ==
    /\ pc = "done"
    /\ Reenter
    /\ a' = b /\ b' = a
    /\ m' = n /\ n' = m
    /\ swapped' = ~swapped
    /\ UNCHANGED k

Next ==
    \/ Validate
    \/ Decode
    \/ CheckMn
    \/ AllocAcc
    \/ ParChunks
    \/ \E i \in 0..(Len(rows) - 1) : Take(i)
    \/ \E i \in 0..(Len(rows) - 1) : Group8(i)
    \/ \E i \in 0..(Len(rows) - 1) : Single(i)
    \/ \E i \in 0..(Len(rows) - 1) : StoreElem(i)
    \/ Join
    \/ Cast
    \/ AllocOut
    \/ WriteOut
    \/ Recall
    \/ SwapCall

Spec == Init /\ [][Next]_vars

-----------------------------------------------------------------------------
(* Properties *)

\* the shape and the buffers as the caller means them, in unbounded arithmetic
LenMismatch == Len(a) # m * k * 2 \/ Len(b) # k * n * 2

NothingDecodedOrAllocated ==
    /\ allocated = {}
    /\ a_half = <<>> /\ b_half = <<>>
    /\ a_f32 = <<>> /\ b_f32 = <<>>
    /\ c_f32 = <<>> /\ c_half = <<>>
    /\ out = <<>>

\* C1: whenever the byte length of a differs from m*k*2 or that of b from
\* k*n*2, the call goes from validation straight to returning badarg: it is
\* never at a later statement, and no decoded array, accumulator or output
\* buffer exists at any moment of the call.
C1_MismatchIsBadargBeforeDecoding ==
    LenMismatch =>
        /\ pc \in {"validate", "done"}
        /\ pc = "done" => outcome = "badarg"
        /\ NothingDecodedOrAllocated

\* a call declared with k but whose A has the bytes of k + 1 columns (B is
\* right) has returned badarg
C1_Witness ==
    /\ pc = "done" /\ outcome = "badarg"
    /\ m >= 1 /\ k >= 1
    /\ Len(a) = m * (k + 1) * 2
    /\ Len(b) = k * n * 2

\* C2: a call whose buffers pass validation and whose m*n, or (m*n)*2,
\* overflows usize returns overflow, and returns it with nothing allocated.
C2_OverflowReturnedBeforeAllocation ==
    (pc = "done" /\ ~LenMismatch /\ m * n * 2 > USIZE_MAX) =>
        /\ outcome = "overflow"
        /\ allocated = {}

\* C3: the call never ends abruptly: it ends with the success payload or one of
\* the enumerated failures.
C3_NeverPanics ==
    pc = "done" => outcome \in {"ok", "badarg", "overflow", "alloc_failed"}

\* C4: a call with correctly sized buffers and m = 0 or n = 0 or k = 0 does not
\* fault and is not refused as badarg or overflow, and the buffer it returns has
\* m*n*2 bytes, all zero.  (Stated for shapes whose m*n*2 is an allocatable
\* size, and leaving aside the allocator refusing the output buffer.)
C4_DegenerateShapesSucceed ==
    (/\ pc = "done"
     /\ ~LenMismatch
     /\ m = 0 \/ n = 0 \/ k = 0
     /\ m * n * SizeOfF32 <= ISIZE_MAX) =>
        /\ outcome \in {"ok", "alloc_failed"}
        /\ outcome = "ok" =>
              /\ Len(out) = m * n * 2
              /\ \A x \in 1..Len(out) : out[x] = 0

-----------------------------------------------------------------------------
(* The product, stated on the arguments *)

\* element t (from 0) of a buffer of packed halfs
ElemOf(bytes, t) == F16ToF32(from_le_bytes(bytes[2 * t + 1], bytes[2 * t + 2]))

RECURSIVE DotUpTo(_, _, _)
\* sum over p in [0, count) of A[i*k + p] * B[p*n + j], in exact arithmetic
DotUpTo(i, j, count) ==
    IF count = 0 THEN 0
    ELSE DotUpTo(i, j, count - 1)
         + ElemOf(a, i * k + count - 1) * ElemOf(b, (count - 1) * n + j)

Dot(i, j) == DotUpTo(i, j, k)

\* the integers of this magnitude are halfs
ExactHalf(v) == Abs(v) <= Pow2(F16Sig)

IsIdentity(bytes, dim) ==
    /\ Len(bytes) = dim * dim * 2
    /\ \A r \in 0..(dim - 1), c \in 0..(dim - 1) :
          ElemOf(bytes, r * dim + c) = IF r = c THEN 1 ELSE 0

\* C5: a successful call with m, n, k >= 1 returns m*n elements, row-major, and
\* every element whose exact sum of products is a half equals that sum; zero
\* inputs give a zero result, and an identity on either side gives back the
\* bytes of the other operand.
C5_ResultIsTheProduct ==
    (pc = "done" /\ outcome = "ok" /\ m >= 1 /\ n >= 1 /\ k >= 1) =>
        /\ Len(out) = m * n * 2
        /\ \A i \in 0..(m - 1), j \in 0..(n - 1) :
              ExactHalf(Dot(i, j)) => ElemOf(out, i * n + j) = Dot(i, j)
        /\ (\A x \in 1..Len(a) : a[x] = 0) => \A x \in 1..Len(out) : out[x] = 0
        /\ (\A x \in 1..Len(b) : b[x] = 0) => \A x \in 1..Len(out) : out[x] = 0
        /\ (m = k /\ IsIdentity(a, k)) => out = b
        /\ (n = k /\ IsIdentity(b, k)) => out = a

\* the scenario A = [[1,0],[0,1]], B = [[2,3],[4,5]] has returned B
C5_Witness ==
    /\ pc = "done" /\ outcome = "ok"
    /\ m = 2 /\ n = 2 /\ k = 2
    /\ a = <<0, 60, 0, 0, 0, 0, 0, 60>>
    /\ b = <<0, 64, 0, 66, 0, 68, 0, 69>>
    /\ out = <<0, 64, 0, 66, 0, 68, 0, 69>>

-----------------------------------------------------------------------------
(* Determinism *)

Finished == pc = "done" /\ ~swapped /\ seen # NoResult

-----------------------------------------------------------------------------
(* Shape validation under overflow *)

ShapeOverflows == m * k * 2 > USIZE_MAX \/ k * n * 2 > USIZE_MAX

\* C7: when m*k, (m*k)*2, k*n or (k*n)*2 overflows usize, the expected length
\* is usize::MAX, not the wrapped product, and the call returns badarg whatever
\* the buffers are: it never gets past validation.
C7_OverflowingShapeIsBadarg ==
    /\ m * k * 2 > USIZE_MAX => expected_a = USIZE_MAX
    /\ k * n * 2 > USIZE_MAX => expected_b = USIZE_MAX
    /\ ShapeOverflows =>
          /\ pc \in {"validate", "done"}
          /\ pc = "done" => outcome = "badarg"

\* a shape that overflows has been refused although the buffers have exactly
\* the lengths the wrapped products give
C7_Witness ==
    /\ pc = "done" /\ outcome = "badarg"
    /\ ShapeOverflows
    /\ Len(a) = (m * k * 2) % (USIZE_MAX + 1)
    /\ Len(b) = (k * n * 2) % (USIZE_MAX + 1)

-----------------------------------------------------------------------------
(* The parallel phase *)

\* C8: the unit of work of row i writes only the accumulator indices of
\* [i*n, (i+1)*n), no index is written by two units, and the decoded A and B
\* are, throughout the parallel phase, what the decoder produced.
C8_DisjointWritesReadOnlyInputs ==
    /\ \A e \in wlog : e[1] * n <= e[2] /\ e[2] < (e[1] + 1) * n
    /\ \A e, f \in wlog : e[2] = f[2] => e[1] = f[1]
    /\ pc = "par" =>
          /\ a_f32 = [t \in 1..(Len(a) \div 2) |-> ElemOf(a, t - 1)]
          /\ b_f32 = [t \in 1..(Len(b) \div 2) |-> ElemOf(b, t - 1)]

\* two units of work are running at once and each has written an element
C8_Witness ==
    /\ pc = "par" /\ k >= 1
    /\ Cardinality(Running) = 2
    /\ \A i \in Running : \E e \in wlog : e[1] = i

\* C9: once the call is past the parallel phase (narrowing, allocation of the
\* output, writing, successful return) every unit of work has finished and
\* every element of the accumulator has been written by the unit of its row.
C9_EncodingAfterAllRows ==
    (pc \in {"cast", "alloc_out", "write"} \/ (pc = "done" /\ outcome = "ok")) =>
        /\ Len(rows) = m
        /\ \A i \in 1..Len(rows) : rows[i].st = "done"
        /\ {e[2] : e \in wlog} = 0..(m * n - 1)

\* the narrowing is about to run on a 2 x 2 accumulator
C9_Witness ==
    /\ pc = "cast"
    /\ m = 2 /\ n = 2 /\ k >= 1
    /\ Cardinality(wlog) = 4

\* C10: for every element, the loop iterations are floor(k/8) groups of eight
\* followed by k mod 8 single steps; the products read are those of
\* p = 0, 1, .. in ascending order, each once, none at or beyond k; with
\* all-one inputs the sum is 16 after two groups for k = 16, and 9 after one
\* group and one single step for k = 9.
C10_GroupsThenRemainder ==
    \A i \in Running :
        LET s == Unit(i)
            g == k \div Unroll
        IN  /\ s.p <= k
            /\ s.reads = [q \in 1..s.p |-> q - 1]
            /\ \A x \in 1..Len(s.steps) :
                  s.steps[x] = IF x <= g THEN "group" ELSE "single"
            /\ s.p = IF Len(s.steps) <= g
                     THEN Unroll * Len(s.steps)
                     ELSE Unroll * g + (Len(s.steps) - g)
            /\ s.p = k => Len(s.steps) = g + (k % Unroll)
            /\ (s.p = k /\ \A t \in 0..(k - 1) :
                    ElemOf(a, i * k + t) = 1 /\ ElemOf(b, t * n + s.j) = 1) =>
                  /\ s.acc = k
                  /\ k = 16 => s.steps = <<"group", "group">>
                  /\ k = 9 => s.steps = <<"group", "single">>

\* k = 9, all ones: the element is complete after one group and one single step
C10_Witness ==
    /\ pc = "par" /\ k = 9 /\ m = 1 /\ n = 1
    /\ \E i \in Running :
          /\ Unit(i).steps = <<"group", "single">>
          /\ Unit(i).acc = 9
          /\ Unit(i).p = 9

====
